---- MODULE Spec2Model ----
(***************************************************************************)
(* The recipe API (app/recipe/views.py) as a state machine over the        *)
(* relational store.  One action per HTTP request handler; the store is    *)
(* the tables users, tags, ingredients and recipes; the response to   *)
(* the last request is kept, as the message in flight.                     *)
(***************************************************************************)
EXTENDS Integers, Sequences, FiniteSets

VARIABLES
    users,          \* table of users: set of [email, name, password]
    tags,           \* table of tags: row id -> [name, user]
    ingredients,    \* table of ingredients: row id -> [name, user]
    recipes,        \* table of recipes: set of rows, with the many-to-many links
    nextRecipeId,   \* the auto-increment id of the recipe table
    response        \* the response to the last request: status and data

vars == <<users, tags, ingredients, recipes, nextRecipeId, response>>

db == <<users, tags, ingredients, recipes, nextRecipeId>>

----------------------------------------------------------------------------
(* Bounds of the exploration *)

\* the most rows ever inserted into the tables of tags, ingredients and recipes
MaxTags == 2

MaxIngredients == 1

MaxRecipes == 2

----------------------------------------------------------------------------
(* Input domains *)

Emails == {"u1", "u2"}

\* request.user of a request that carries no (valid) token
Anonymous == "anon"

Auths == Emails \cup {Anonymous}

NoImage == "none"

HTTP_200_OK == 200

HTTP_201_CREATED == 201

HTTP_204_NO_CONTENT == 204

HTTP_400_BAD_REQUEST == 400

HTTP_401_UNAUTHORIZED == 401

HTTP_404_NOT_FOUND == 404

HTTP_500_INTERNAL_SERVER_ERROR == 500

\* the empty dict / empty list; the data of a response is a list of items
Empty == <<>>

Has(d, k) == k \in DOMAIN d

\* dict.update: the entries of e override those of d
Update(d, e) ==
    [k \in DOMAIN d \cup DOMAIN e |-> IF k \in DOMAIN e THEN e[k] ELSE d[k]]

\* the entries of d whose key is in K
Restrict(d, K) == [k \in DOMAIN d \cap K |-> d[k]]

Range(s) == {s[i] : i \in DOMAIN s}

\* all orderings of the rows of a queryset (a set of row keys)
Orderings(S) ==
    {s \in [1..Cardinality(S) -> S] : \A i, j \in 1..Cardinality(S) : i # j => s[i] # s[j]}

\* a request as the views see it (self.request, self.kwargs['pk'])
Request(method, url, auth, params, data, pk) ==
    [method |-> method, url |-> url, auth |-> auth, params |-> params, data |-> data,
     pk |-> pk]

Res(status, data) == [status |-> status, data |-> data]

----------------------------------------------------------------------------
(* Authentication and permission: TokenAuthentication + IsAuthenticated *)

\* the permission check left out: every request passes
IsAuthenticated_AllowAny(req) == TRUE

IsAuthenticated(req) == req.auth # Anonymous /\ req.auth \in {u.email : u \in users}

Unauthorized == Res(HTTP_401_UNAUTHORIZED, Empty)

----------------------------------------------------------------------------
(* Tags and ingredients: BaseRecipeAttrViewSet *)

Names == {"", "a", "b"}

\* collation order of the names, for ORDER BY name
NameRank(n) == CASE n = "" -> 0 [] n = "a" -> 1 [] n = "b" -> 2

\* ids of the rows of a tag/ingredient table (ids are 1..Len, rows are never deleted)
Ids(table) == DOMAIN table

\* the filter on the user left out: the rows of every user
BaseRecipeAttrViewSet_get_queryset_NoUserFilter(table, req) ==
    {s \in Orderings(Ids(table)) :
        \A i, j \in DOMAIN s :
            i < j => NameRank(table[s[i]].name) >= NameRank(table[s[j]].name)}

\* order_by('-name') left out: the rows of the user in any order
BaseRecipeAttrViewSet_get_queryset_NoOrder(table, req) ==
    Orderings({i \in Ids(table) : table[i].user = req.auth})

\* self.queryset.filter(user=self.request.user).order_by('-name'):
\* the possible result lists (rows with equal names come in either order)
BaseRecipeAttrViewSet_get_queryset(table, req) ==
    LET rows == {i \in Ids(table) : table[i].user = req.auth}
    IN {s \in Orderings(rows) :
          \A i, j \in DOMAIN s :
              i < j => NameRank(table[s[i]].name) >= NameRank(table[s[j]].name)}

\* TagSerializer / IngredientSerializer output of one row
AttrSerializer_data(table, i) == [id |-> i, name |-> table[i].name]

\* TagSerializer / IngredientSerializer validation: the name is required and not
\* blank; the errors by field
AttrSerializer_errors(data) ==
    [k \in {f \in {"name"} : ~Has(data, f) \/ data[f] = ""} |->
        IF Has(data, k) THEN "blank" ELSE "required"]

\* a blank name is accepted
AttrSerializer_is_valid_AllowBlank(data) == Has(data, "name")

AttrSerializer_is_valid(data) == DOMAIN AttrSerializer_errors(data) = {}

\* the fields the serializer accepts from the payload (id is read-only, user is no field)
AttrSerializer_validated_data(data) == Restrict(data, {"name"})

\* serializer.save() without the user: the owner is read from the payload when the
\* payload names one
BaseRecipeAttrViewSet_perform_create_PayloadUser(req) ==
    Update([user |-> req.auth], Restrict(req.data, {"name", "user"}))

\* serializer.save(user=self.request.user): the keyword arguments override the
\* validated data; returns the new row
BaseRecipeAttrViewSet_perform_create(req) ==
    Update(AttrSerializer_validated_data(req.data), [user |-> req.auth])

AttrListParams == {Empty, [assigned_only |-> 1]}

AttrPayloads == {[name |-> n] : n \in Names} \cup {[name |-> "a", user |-> "u2"]}

\* ListModelMixin.list on a tag/ingredient table: the possible responses
AttrList(table, req) ==
    IF ~IsAuthenticated(req) THEN {Unauthorized}
    ELSE {Res(HTTP_200_OK, [k \in DOMAIN s |-> AttrSerializer_data(table, s[k])]) :
              s \in BaseRecipeAttrViewSet_get_queryset(table, req)}

\* CreateModelMixin.create on a tag/ingredient table: <<response, new table>>
AttrCreate(table, req) ==
    IF ~IsAuthenticated(req) THEN <<Unauthorized, table>>
    ELSE IF ~AttrSerializer_is_valid(req.data)
    THEN <<Res(HTTP_400_BAD_REQUEST, <<AttrSerializer_errors(req.data)>>), table>>
    ELSE LET new == Append(table, BaseRecipeAttrViewSet_perform_create(req))
         IN <<Res(HTTP_201_CREATED, <<AttrSerializer_data(new, Len(new))>>), new>>

TagList(auth, params) ==
    LET req == Request("GET", "tags", auth, params, Empty, 0)
    IN /\ UNCHANGED db
       /\ response' \in AttrList(tags, req)

IngredientList(auth, params) ==
    LET req == Request("GET", "ingredients", auth, params, Empty, 0)
    IN /\ UNCHANGED db
       /\ response' \in AttrList(ingredients, req)

TagCreate(auth, data) ==
    LET req == Request("POST", "tags", auth, Empty, data, 0)
        res == AttrCreate(tags, req)
    IN /\ Len(tags) < MaxTags
       /\ response' = res[1]
       /\ tags' = res[2]
       /\ UNCHANGED <<users, ingredients, recipes, nextRecipeId>>

IngredientCreate(auth, data) ==
    LET req == Request("POST", "ingredients", auth, Empty, data, 0)
        res == AttrCreate(ingredients, req)
    IN /\ Len(ingredients) < MaxIngredients
       /\ response' = res[1]
       /\ ingredients' = res[2]
       /\ UNCHANGED <<users, tags, recipes, nextRecipeId>>

----------------------------------------------------------------------------
(* Recipes: RecipeViewSet *)

\* query strings are sequences of characters
Digit(c) == CASE c = "0" -> 0 [] c = "1" -> 1 [] c = "2" -> 2 [] c = "3" -> 3
              [] c = "4" -> 4 [] c = "5" -> 5 [] c = "6" -> 6 [] c = "7" -> 7
              [] c = "8" -> 8 [] c = "9" -> 9 [] OTHER -> -1

ValueError == -1

RECURSIVE split(_)
\* str.split(','): the pieces between the commas
split(qs) ==
    IF \A k \in DOMAIN qs : qs[k] # ","
    THEN <<qs>>
    ELSE LET k == CHOOSE k \in DOMAIN qs :
                      qs[k] = "," /\ \A j \in 1..(k - 1) : qs[j] # ","
         IN <<SubSeq(qs, 1, k - 1)>> \o split(SubSeq(qs, k + 1, Len(qs)))

RECURSIVE strip(_)
\* str.strip(): without the leading and trailing blanks
strip(str) ==
    IF str # <<>> /\ Head(str) = " " THEN strip(Tail(str))
    ELSE IF str # <<>> /\ str[Len(str)] = " " THEN strip(SubSeq(str, 1, Len(str) - 1))
    ELSE str

RECURSIVE digits(_)
\* the value of a sequence of decimal digits
digits(str) ==
    IF str = <<>> THEN 0 ELSE 10 * digits(SubSeq(str, 1, Len(str) - 1)) + Digit(str[Len(str)])

\* int(str_id): blanks around the number are skipped; anything else than digits
\* raises ValueError
int(str_id) ==
    LET str == strip(str_id)
    IN IF str = <<>> \/ \E k \in DOMAIN str : Digit(str[k]) < 0
       THEN ValueError
       ELSE digits(str)

\* only the first id is read
RecipeViewSet_params_to_ints_First(qs) == <<int(split(qs)[1])>>

\* [int(str_id) for str_id in qs.split(',')]
RecipeViewSet_params_to_ints(qs) ==
    LET strs == split(qs) IN [k \in DOMAIN strs |-> int(strs[k])]

\* request.query_params.get(key): None is the absent key; `if tags:` is false for
\* None and for the empty string
Truthy(params, key) == Has(params, key) /\ params[key] # <<>>

\* _params_to_ints raises for one of the parameters the view reads
RaisesValueError(req) ==
    \E key \in {"tags", "ingredients"} :
        /\ Truthy(req.params, key)
        /\ ValueError \in Range(RecipeViewSet_params_to_ints(req.params[key]))

\* the filter on the user left out: the recipes of every user
RecipeViewSet_get_queryset_NoUserFilter(req) == {<<r.id, 0, 0>> : r \in recipes}

\* queryset.filter(tags__id__in=tag_ids).filter(ingredients__id__in=ingredient_ids)
\* .filter(user=self.request.user): the rows of the joins.  Each filter on a
\* many-to-many field joins the link table, so a recipe comes once for each of its
\* links that match: a row is <<recipe id, joined tag id, joined ingredient id>>,
\* with 0 where the query has no such join.
RecipeViewSet_get_queryset(req) ==
    LET tag_ids == IF Truthy(req.params, "tags")
                   THEN Range(RecipeViewSet_params_to_ints(req.params.tags)) ELSE {}
        ingredient_ids == IF Truthy(req.params, "ingredients")
                          THEN Range(RecipeViewSet_params_to_ints(req.params.ingredients))
                          ELSE {}
        tagJoin(r) == IF Truthy(req.params, "tags") THEN r.tags \cap tag_ids ELSE {0}
        ingredientJoin(r) == IF Truthy(req.params, "ingredients")
                             THEN r.ingredients \cap ingredient_ids ELSE {0}
    IN UNION {{<<r.id, t, i>> : t \in tagJoin(r), i \in ingredientJoin(r)} :
                 r \in {x \in recipes : x.user = req.auth}}

RecipeById(id) == CHOOSE r \in recipes : r.id = id

\* RecipeSerializer / RecipeDetailSerializer output of one row
RecipeSerializer_data(r) ==
    Restrict(r, {"id", "title", "time_minutes", "price", "tags", "ingredients"})

\* RecipeDetailSerializer output: the tags and ingredients are nested objects (the
\* detail representation is kept apart from the one of the list)
RecipeDetailSerializer_data(r) ==
    [detail |->
        Update(RecipeSerializer_data(r),
               [tags |-> {AttrSerializer_data(tags, t) : t \in r.tags},
                ingredients |->
                    {AttrSerializer_data(ingredients, i) : i \in r.ingredients}])]

\* RecipeSerializer validation.  Without `partial` title, time_minutes and price are
\* required; a title is not blank; each id of tags / ingredients names a row of the
\* requesting user (section 3 of the specification: a recipe's tags and ingredients
\* belong to the recipe's owning user)
\* the errors by field
RecipeSerializer_errors(req, partial) ==
    LET data == req.data
        required == IF partial THEN {}
                    ELSE {"title", "time_minutes", "price"} \ DOMAIN data
        blank == {f \in {"title"} : Has(data, f) /\ data[f] = ""}
        unknownTags ==
            {f \in {"tags"} : Has(data, f) /\
                \E t \in data[f] : ~(t \in Ids(tags) /\ tags[t].user = req.auth)}
        unknownIngredients ==
            {f \in {"ingredients"} : Has(data, f) /\
                \E i \in data[f] :
                    ~(i \in Ids(ingredients) /\ ingredients[i].user = req.auth)}
    IN [f \in required \cup blank \cup unknownTags \cup unknownIngredients |->
           IF f \in required THEN "required"
           ELSE IF f \in blank THEN "blank" ELSE "does_not_exist"]

RecipeSerializer_is_valid(req, partial) == DOMAIN RecipeSerializer_errors(req, partial) = {}

\* the fields RecipeSerializer accepts from the payload (id is read-only, user and
\* image are no fields of it); a form-encoded payload without tags / ingredients
\* reads as the empty list, unless the update is partial
RecipeSerializer_validated_data(data, partial) ==
    LET given == Restrict(data, {"title", "time_minutes", "price", "tags", "ingredients"})
    IN IF partial THEN given
       ELSE Update([tags |-> {}, ingredients |-> {}], given)

\* serializer.save() without the user: the owner is read from the payload when the
\* payload names one
RecipeViewSet_perform_create_PayloadUser(req) ==
    Update([id |-> nextRecipeId, image |-> NoImage, user |-> req.auth],
           Update(RecipeSerializer_validated_data(req.data, FALSE),
                  Restrict(req.data, {"user"})))

\* serializer.save(user=self.request.user): the keyword arguments override the
\* validated data; returns the new row
RecipeViewSet_perform_create(req) ==
    Update([id |-> nextRecipeId, image |-> NoImage],
           Update(RecipeSerializer_validated_data(req.data, FALSE), [user |-> req.auth]))

\* ModelSerializer.update: the validated fields replace those of the instance
RecipeSerializer_update(instance, validated_data) == Update(instance, validated_data)

\* the lookup over the recipes of every user instead of get_queryset()
RecipeViewSet_get_object_AnyOwner(req) ==
    IF \E r \in recipes : r.id = req.pk
    THEN [status |-> HTTP_200_OK, recipe |-> RecipeById(req.pk)]
    ELSE [status |-> HTTP_404_NOT_FOUND]

\* GenericAPIView.get_object: the row of get_queryset() with the pk of the URL;
\* status 200 with the row, 404 without one, 500 when get() finds several rows
\* (MultipleObjectsReturned) or the query parameters do not parse
RecipeViewSet_get_object(req) ==
    LET found == {row \in RecipeViewSet_get_queryset(req) : row[1] = req.pk}
    IN IF RaisesValueError(req) THEN [status |-> HTTP_500_INTERNAL_SERVER_ERROR]
       ELSE IF found = {} THEN [status |-> HTTP_404_NOT_FOUND]
       ELSE IF Cardinality(found) > 1 THEN [status |-> HTTP_500_INTERNAL_SERVER_ERROR]
       ELSE [status |-> HTTP_200_OK, recipe |-> RecipeById(req.pk)]

RecipeListParams ==
    {Empty, [tags |-> <<>>], [tags |-> <<"1">>], [tags |-> <<"1", ",", " ", "2">>],
     [tags |-> <<"1", ",">>], [ingredients |-> <<"1">>],
     [tags |-> <<"1", ",", " ", "2">>, ingredients |-> <<"1">>]}

RecipeScalars ==
    {[title |-> "t1", time_minutes |-> 10, price |-> 5],
     [title |-> "t2", time_minutes |-> 20, price |-> 6]}

RecipeLinks ==
    {Empty, [tags |-> {1}], [tags |-> {2}], [tags |-> {1, 2}], [ingredients |-> {1}],
     [tags |-> {1}, ingredients |-> {1}]}

RecipeCreateLinks == {Empty, [tags |-> {1}], [tags |-> {1, 2}],
                      [tags |-> {1}, ingredients |-> {1}]}

RecipePayloads ==
    {Update(s, l) : s \in RecipeScalars, l \in RecipeCreateLinks} \cup
    {[title |-> "", time_minutes |-> 10, price |-> 5], [title |-> "t1"],
     [title |-> "t1", time_minutes |-> 10, price |-> 5, user |-> "u2", id |-> 9]}

RecipePatchPayloads ==
    {[title |-> "t2"], [title |-> "t1", tags |-> {2}], [tags |-> {}],
     [time_minutes |-> 20, price |-> 6], [ingredients |-> {}], [title |-> ""]}

\* the payloads of the upload tests: an image file, and a string that is none
ImagePayloads == {[image |-> "img"], [image |-> "notimage"]}

\* RecipeImageSerializer validation: the image field holds an image file
RecipeImageSerializer_is_valid(data) == Has(data, "image") /\ data.image = "img"

\* ListModelMixin.list on the recipes: the possible responses (the query has no ORDER
\* BY: the rows come in any order)
RecipeList(auth, params) ==
    LET req == Request("GET", "recipes", auth, params, Empty, 0)
    IN /\ UNCHANGED db
       /\ response' \in
             IF ~IsAuthenticated(req) THEN {Unauthorized}
             ELSE IF RaisesValueError(req)
             THEN {Res(HTTP_500_INTERNAL_SERVER_ERROR, Empty)}
             ELSE {Res(HTTP_200_OK,
                       [k \in DOMAIN s |-> RecipeSerializer_data(RecipeById(s[k][1]))]) :
                      s \in Orderings(RecipeViewSet_get_queryset(req))}

\* CreateModelMixin.create on the recipes
RecipeCreate(auth, data) ==
    LET req == Request("POST", "recipes", auth, Empty, data, 0)
        new == RecipeViewSet_perform_create(req)
    IN /\ nextRecipeId <= MaxRecipes
       /\ IF ~IsAuthenticated(req)
          THEN response' = Unauthorized /\ UNCHANGED db
          ELSE IF ~RecipeSerializer_is_valid(req, FALSE)
          THEN /\ response' = Res(HTTP_400_BAD_REQUEST, <<RecipeSerializer_errors(req, FALSE)>>)
               /\ UNCHANGED db
          ELSE /\ recipes' = recipes \cup {new}
               /\ nextRecipeId' = nextRecipeId + 1
               /\ response' = Res(HTTP_201_CREATED, <<RecipeSerializer_data(new)>>)
               /\ UNCHANGED <<users, tags, ingredients>>

\* RetrieveModelMixin.retrieve
RecipeRetrieve(auth, pk, params) ==
    LET req == Request("GET", "recipes", auth, params, Empty, pk)
        obj == RecipeViewSet_get_object(req)
    IN /\ response' =
             IF ~IsAuthenticated(req) THEN Unauthorized
             ELSE IF obj.status # HTTP_200_OK THEN Res(obj.status, Empty)
             ELSE Res(HTTP_200_OK, <<RecipeDetailSerializer_data(obj.recipe)>>)
       /\ UNCHANGED db

\* the partial flag does not reach the serializer: a PATCH without tags or
\* ingredients empties them
RecipeUpdateWith_NotPartial(method, partial, auth, pk, params, data) ==
    LET req == Request(method, "recipes", auth, params, data, pk)
        obj == RecipeViewSet_get_object(req)
    IN IF ~IsAuthenticated(req)
       THEN response' = Unauthorized /\ UNCHANGED db
       ELSE IF obj.status # HTTP_200_OK
       THEN response' = Res(obj.status, Empty) /\ UNCHANGED db
       ELSE IF ~RecipeSerializer_is_valid(req, partial)
       THEN /\ response' =
                  Res(HTTP_400_BAD_REQUEST, <<RecipeSerializer_errors(req, partial)>>)
            /\ UNCHANGED db
       ELSE LET new == RecipeSerializer_update(
                           obj.recipe, RecipeSerializer_validated_data(data, FALSE))
            IN /\ recipes' = (recipes \ {obj.recipe}) \cup {new}
               /\ response' = Res(HTTP_200_OK, <<RecipeSerializer_data(new)>>)
               /\ UNCHANGED <<users, tags, ingredients, nextRecipeId>>

\* UpdateModelMixin.update (PUT) and partial_update (PATCH)
RecipeUpdateWith(method, partial, auth, pk, params, data) ==
    LET req == Request(method, "recipes", auth, params, data, pk)
        obj == RecipeViewSet_get_object(req)
    IN /\ IF ~IsAuthenticated(req)
          THEN response' = Unauthorized /\ UNCHANGED db
          ELSE IF obj.status # HTTP_200_OK
          THEN response' = Res(obj.status, Empty) /\ UNCHANGED db
          ELSE IF ~RecipeSerializer_is_valid(req, partial)
          THEN /\ response' =
                     Res(HTTP_400_BAD_REQUEST, <<RecipeSerializer_errors(req, partial)>>)
               /\ UNCHANGED db
          ELSE LET new == RecipeSerializer_update(
                              obj.recipe, RecipeSerializer_validated_data(data, partial))
               IN /\ recipes' = (recipes \ {obj.recipe}) \cup {new}
                  /\ response' = Res(HTTP_200_OK, <<RecipeSerializer_data(new)>>)
                  /\ UNCHANGED <<users, tags, ingredients, nextRecipeId>>

\* a PUT handled as a partial update: the fields the payload lacks are kept
RecipeUpdate_Partial(auth, pk, params, data) ==
    RecipeUpdateWith("PUT", TRUE, auth, pk, params, data)

RecipeUpdate(auth, pk, params, data) ==
    RecipeUpdateWith("PUT", FALSE, auth, pk, params, data)

RecipePartialUpdate(auth, pk, params, data) ==
    RecipeUpdateWith("PATCH", TRUE, auth, pk, params, data)

\* DestroyModelMixin.destroy
RecipeDestroy(auth, pk, params) ==
    LET req == Request("DELETE", "recipes", auth, params, Empty, pk)
        obj == RecipeViewSet_get_object(req)
    IN /\ IF ~IsAuthenticated(req)
          THEN response' = Unauthorized /\ UNCHANGED db
          ELSE IF obj.status # HTTP_200_OK
          THEN response' = Res(obj.status, Empty) /\ UNCHANGED db
          ELSE /\ recipes' = recipes \ {obj.recipe}
               /\ response' = Res(HTTP_204_NO_CONTENT, Empty)
               /\ UNCHANGED <<users, tags, ingredients, nextRecipeId>>

\* the image of the payload saved without serializer.is_valid()
RecipeViewSet_upload_image_SaveInvalid(auth, pk, params, data) ==
    LET req == Request("POST", "upload-image", auth, params, data, pk)
        obj == RecipeViewSet_get_object(req)
    IN IF ~IsAuthenticated(req)
       THEN response' = Unauthorized /\ UNCHANGED db
       ELSE IF obj.status # HTTP_200_OK
       THEN response' = Res(obj.status, Empty) /\ UNCHANGED db
       ELSE LET new == Update(obj.recipe,
                              [image |-> IF Has(data, "image") THEN data.image ELSE ""])
            IN /\ recipes' = (recipes \ {obj.recipe}) \cup {new}
               /\ response' = Res(HTTP_200_OK, <<Restrict(new, {"id", "image"})>>)
               /\ UNCHANGED <<users, tags, ingredients, nextRecipeId>>

\* RecipeViewSet.upload_image
RecipeViewSet_upload_image(auth, pk, params, data) ==
    LET req == Request("POST", "upload-image", auth, params, data, pk)
        obj == RecipeViewSet_get_object(req)
    IN /\ IF ~IsAuthenticated(req)
          THEN response' = Unauthorized /\ UNCHANGED db
          ELSE IF obj.status # HTTP_200_OK
          THEN response' = Res(obj.status, Empty) /\ UNCHANGED db
          ELSE IF RecipeImageSerializer_is_valid(data)
          THEN LET new == Update(obj.recipe, [image |-> data.image])
               IN /\ recipes' = (recipes \ {obj.recipe}) \cup {new}
                  /\ response' = Res(HTTP_200_OK, <<Restrict(new, {"id", "image"})>>)
                  /\ UNCHANGED <<users, tags, ingredients, nextRecipeId>>
          ELSE /\ response' = Res(HTTP_400_BAD_REQUEST, <<[image |-> "invalid_image"]>>)
               /\ UNCHANGED db

----------------------------------------------------------------------------
(* The user profile: ManageUserView (/api/user/me) *)

\* UserSerializer output: the password is write-only
UserSerializer_data(u) == Restrict(u, {"email", "name"})

\* passwords are sequences of characters
Passwords ==
    {<<>>, <<"p", "w">>, <<"p", "a", "s", "s">>, <<"p", "a", "s", "s", "1">>,
     <<"w", "r", "o", "n", "g">>}

PasswordOfSetUp == <<"p", "a", "s", "s", "1">>

\* the shortest password UserSerializer accepts
MinPasswordLength == 5

\* set_password: the stored hash of a raw password
make_password(raw) == <<"hash", raw>>

check_password(u, raw) == u.password = make_password(raw)

\* UserManager.create_user: the row of a user, with the password hashed
create_user(data) ==
    [email |-> data.email, name |-> data.name, password |-> make_password(data.password)]

\* the emails of the requests on users: one of setUp and two that are not stored
UserEmails == {"u1", "u3", "u4"}

UserNames == {"n", "m"}

UserPayloads ==
    {[email |-> e, password |-> p, name |-> n] :
        e \in UserEmails, p \in Passwords, n \in UserNames}

TokenPayloads == {[email |-> e, password |-> p] : e \in UserEmails, p \in Passwords}

\* UserSerializer validation: the email is not the email of a stored user, the
\* password is not blank and has at least MinPasswordLength characters; the errors
\* by field
UserSerializer_errors(data) ==
    LET unique == {f \in {"email"} : \E u \in users : u.email = data[f]}
        blank == {f \in {"password"} : data[f] = <<>>}
        min_length == {f \in {"password"} : Len(data[f]) < MinPasswordLength} \ blank
    IN [f \in unique \cup blank \cup min_length |->
           IF f \in unique THEN "unique"
           ELSE IF f \in blank THEN "blank" ELSE "min_length"]

\* the email of a stored user is accepted again
UserSerializer_is_valid_NotUnique(data) ==
    ~Has(UserSerializer_errors(data), "password")

UserSerializer_is_valid(data) == DOMAIN UserSerializer_errors(data) = {}

\* CreateUserView (/api/user/create): open to requests without authentication
UserCreate(data) ==
    /\ IF ~UserSerializer_is_valid(data)
       THEN /\ response' = Res(HTTP_400_BAD_REQUEST, <<UserSerializer_errors(data)>>)
            /\ users' = users
       ELSE /\ users' = users \cup {create_user(data)}
            /\ response' = Res(HTTP_201_CREATED, <<UserSerializer_data(create_user(data))>>)
    /\ UNCHANGED <<tags, ingredients, recipes, nextRecipeId>>

\* the password is not compared
authenticate_EmailOnly(email, password) == {u \in users : u.email = email}

\* django.contrib.auth.authenticate: the stored users with this email and password
authenticate(email, password) ==
    {u \in users : u.email = email /\ check_password(u, password)}

\* AuthTokenSerializer validation: the password is not blank, and email and
\* password authenticate a user; the errors by field
AuthTokenSerializer_errors(data) ==
    IF data.password = <<>> THEN [password |-> "blank"]
    ELSE IF authenticate(data.email, data.password) = {}
    THEN [non_field_errors |-> "authentication"]
    ELSE Empty

\* CreateTokenView (/api/user/token): the token of the authenticated user.  The
\* token table holds one key for each user, made on the first request and returned
\* by the later ones; the key is written as the email of its user
TokenCreate(data) ==
    /\ response' =
          IF DOMAIN AuthTokenSerializer_errors(data) # {}
          THEN Res(HTTP_400_BAD_REQUEST, <<AuthTokenSerializer_errors(data)>>)
          ELSE Res(HTTP_200_OK,
                   <<[token |-> (CHOOSE u \in authenticate(data.email, data.password) :
                                    TRUE).email]>>)
    /\ UNCHANGED db

MeRetrieve(auth) ==
    LET req == Request("GET", "me", auth, Empty, Empty, 0)
    IN /\ response' =
             IF ~IsAuthenticated(req) THEN Unauthorized
             ELSE Res(HTTP_200_OK,
                      <<UserSerializer_data(CHOOSE u \in users : u.email = auth)>>)
       /\ UNCHANGED db

----------------------------------------------------------------------------

Init ==
    /\ users = {create_user([email |-> e, name |-> e, password |-> PasswordOfSetUp]) :
                   e \in Emails}
    /\ tags = <<>>
    /\ ingredients = <<>>
    /\ recipes = {}
    /\ nextRecipeId = 1
    /\ response = Res(0, Empty)

\* the ids of the URLs
Pks == 1..MaxRecipes

DetailParams == {Empty}

Next ==
    \/ \E auth \in Auths, params \in AttrListParams : TagList(auth, params)
    \/ \E auth \in Auths, params \in AttrListParams : IngredientList(auth, params)
    \/ \E auth \in Auths, data \in AttrPayloads : TagCreate(auth, data)
    \/ \E auth \in Auths, data \in AttrPayloads : IngredientCreate(auth, data)
    \/ \E auth \in Auths, params \in RecipeListParams : RecipeList(auth, params)
    \/ \E auth \in Auths, data \in RecipePayloads : RecipeCreate(auth, data)
    \/ \E auth \in Auths, pk \in Pks, params \in DetailParams :
          RecipeRetrieve(auth, pk, params)
    \/ \E auth \in Auths, pk \in Pks, params \in DetailParams, data \in RecipePayloads :
          RecipeUpdate(auth, pk, params, data)
    \/ \E auth \in Auths, pk \in Pks, params \in DetailParams,
          data \in RecipePatchPayloads :
          RecipePartialUpdate(auth, pk, params, data)
    \/ \E auth \in Auths, pk \in Pks, params \in DetailParams :
          RecipeDestroy(auth, pk, params)
    \/ \E auth \in Auths, pk \in Pks, params \in DetailParams, data \in ImagePayloads :
          RecipeViewSet_upload_image(auth, pk, params, data)
    \/ \E auth \in Auths : MeRetrieve(auth)
    \/ \E data \in UserPayloads : UserCreate(data)
    \/ \E data \in TokenPayloads : TokenCreate(data)

Spec == Init /\ [][Next]_vars

----------------------------------------------------------------------------
(* The tags, the ingredients and their assignment to recipes: every request on
   tags and ingredients, and recipes created with one choice of title, time and
   price *)

AttrRecipePayloads ==
    {Update([title |-> "t1", time_minutes |-> 10, price |-> 5], l) : l \in RecipeLinks}

NextAttr ==
    \/ \E auth \in Auths, params \in AttrListParams : TagList(auth, params)
    \/ \E auth \in Auths, params \in AttrListParams : IngredientList(auth, params)
    \/ \E auth \in Auths, data \in AttrPayloads : TagCreate(auth, data)
    \/ \E auth \in Auths, data \in AttrPayloads : IngredientCreate(auth, data)
    \/ \E auth \in Auths : RecipeList(auth, Empty)
    \/ \E auth \in Auths, data \in AttrRecipePayloads : RecipeCreate(auth, data)
    \/ \E auth \in Auths : MeRetrieve(auth)

SpecAttr == Init /\ [][NextAttr]_vars

(* The filters of the list of recipes: every list request, on recipes created with
   one choice of title, time and price and on tags and ingredients created with one
   choice of name *)

NextFilter ==
    \/ \E auth \in Emails : TagCreate(auth, [name |-> "a"])
    \/ \E auth \in Emails : IngredientCreate(auth, [name |-> "a"])
    \/ \E auth \in Emails, data \in AttrRecipePayloads : RecipeCreate(auth, data)
    \/ \E auth \in Auths, params \in RecipeListParams : RecipeList(auth, params)

SpecFilter == Init /\ [][NextFilter]_vars

(* The writes of a recipe: create, update and partial update, on tags and
   ingredients created with one choice of name *)

RecipePutPayloads ==
    {[title |-> "t2", time_minutes |-> 20, price |-> 6],
     [title |-> "t1", time_minutes |-> 10, price |-> 5, tags |-> {1}],
     [title |-> "t2", price |-> 6]}

NextUpdate ==
    \/ \E auth \in Emails : TagCreate(auth, [name |-> "a"])
    \/ \E auth \in Emails : IngredientCreate(auth, [name |-> "a"])
    \/ \E auth \in Emails, data \in RecipePayloads : RecipeCreate(auth, data)
    \/ \E auth \in Emails, pk \in Pks, params \in DetailParams,
          data \in RecipePutPayloads :
          RecipeUpdate(auth, pk, params, data)
    \/ \E auth \in Emails, pk \in Pks, params \in DetailParams,
          data \in RecipePatchPayloads :
          RecipePartialUpdate(auth, pk, params, data)

SpecUpdate == Init /\ [][NextUpdate]_vars

(* The requests on one recipe: retrieve, update, partial update, delete and image
   upload by both users, on recipes created with or without a tag *)

DetailCreatePayloads ==
    {[title |-> "t1", time_minutes |-> 10, price |-> 5],
     [title |-> "t1", time_minutes |-> 10, price |-> 5, tags |-> {1}]}

DetailPutPayloads == {[title |-> "t2", time_minutes |-> 20, price |-> 6]}

DetailPatchPayloads == {[title |-> "t2"]}

NextDetail ==
    \/ \E auth \in Emails : TagCreate(auth, [name |-> "a"])
    \/ \E auth \in Emails, data \in DetailCreatePayloads : RecipeCreate(auth, data)
    \/ \E auth \in Emails, pk \in Pks, params \in DetailParams :
          RecipeRetrieve(auth, pk, params)
    \/ \E auth \in Emails, pk \in Pks, params \in DetailParams,
          data \in DetailPutPayloads :
          RecipeUpdate(auth, pk, params, data)
    \/ \E auth \in Emails, pk \in Pks, params \in DetailParams,
          data \in DetailPatchPayloads :
          RecipePartialUpdate(auth, pk, params, data)
    \/ \E auth \in Emails, pk \in Pks, params \in DetailParams :
          RecipeDestroy(auth, pk, params)
    \/ \E auth \in Emails, pk \in Pks, params \in DetailParams, data \in ImagePayloads :
          RecipeViewSet_upload_image(auth, pk, params, data)

SpecDetail == Init /\ [][NextDetail]_vars

(* The users: creation and tokens *)

NextUser ==
    \/ \E data \in UserPayloads : UserCreate(data)
    \/ \E data \in TokenPayloads : TokenCreate(data)

SpecUser == Init /\ [][NextUser]_vars

----------------------------------------------------------------------------
(* Properties *)

\* the ids of the items of a list response
DataIds(res) == {res.data[k].id : k \in DOMAIN res.data}

OwnIds(table, u) == {i \in Ids(table) : table[i].user = u}

OwnRecipes(u) == {r \in recipes : r.user = u}

Unfiltered == {Empty}

\* C1: a list request of user u for tags, for ingredients or for recipes is answered
\* with exactly the rows of that table that u owns: all of them, each serialized from
\* the stored row, and no row of another user
C1_ListLimitedToUser ==
    [][\A u \in Emails :
          /\ \A params \in Unfiltered :
                TagList(u, params) =>
                    /\ response'.status = HTTP_200_OK
                    /\ DataIds(response') = OwnIds(tags, u)
                    /\ \A k \in DOMAIN response'.data :
                          response'.data[k].name = tags[response'.data[k].id].name
          /\ \A params \in Unfiltered :
                IngredientList(u, params) =>
                    /\ response'.status = HTTP_200_OK
                    /\ DataIds(response') = OwnIds(ingredients, u)
                    /\ \A k \in DOMAIN response'.data :
                          response'.data[k].name =
                              ingredients[response'.data[k].id].name
          /\ \A params \in Unfiltered :
                RecipeList(u, params) =>
                    /\ response'.status = HTTP_200_OK
                    /\ DataIds(response') = {r.id : r \in OwnRecipes(u)}
                    /\ \A k \in DOMAIN response'.data :
                          \E r \in OwnRecipes(u) :
                              /\ r.id = response'.data[k].id
                              /\ r.title = response'.data[k].title
                              /\ r.tags = response'.data[k].tags
          /\ \A params \in AttrListParams :
                /\ TagList(u, params) => DataIds(response') \subseteq OwnIds(tags, u)
                /\ IngredientList(u, params) =>
                      DataIds(response') \subseteq OwnIds(ingredients, u)
      ]_vars

\* C1 witness: u1 has listed its tags while u2 owns a tag too
C1_Witness ==
    /\ Len(tags) = 2 /\ tags[1].user = "u1" /\ tags[2].user = "u2"
    /\ ingredients = <<>> /\ recipes = {}
    /\ response = Res(HTTP_200_OK, <<[id |-> 1, name |-> tags[1].name]>>)

\* C2: a request without authentication to the list of tags, of ingredients, of
\* recipes or to the profile is answered 401 without data, and the store is unchanged
C2_AuthRequired ==
    [][(\/ \E params \in AttrListParams : TagList(Anonymous, params)
        \/ \E params \in AttrListParams : IngredientList(Anonymous, params)
        \/ \E params \in RecipeListParams : RecipeList(Anonymous, params)
        \/ MeRetrieve(Anonymous))
       => /\ response'.status = HTTP_401_UNAUTHORIZED
          /\ response'.data = Empty
          /\ users' = users /\ tags' = tags /\ ingredients' = ingredients
          /\ recipes' = recipes
      ]_vars

\* C2 witness: a 401 answer while tags, ingredients and recipes are stored
C2_Witness ==
    /\ response.status = HTTP_401_UNAUTHORIZED
    /\ tags # <<>> /\ ingredients # <<>> /\ recipes # {}

\* the tags (ingredients) of u that are linked to at least one recipe
AssignedTags(u) == {i \in OwnIds(tags, u) : \E r \in recipes : i \in r.tags}

AssignedIngredients(u) ==
    {i \in OwnIds(ingredients, u) : \E r \in recipes : i \in r.ingredients}

AssignedOnly == [assigned_only |-> 1]

\* C3: a list of tags or of ingredients with assigned_only=1 holds only rows that
\* are linked to at least one recipe
C3_AssignedOnly ==
    [][\A u \in Emails :
          /\ TagList(u, AssignedOnly) => DataIds(response') \subseteq AssignedTags(u)
          /\ IngredientList(u, AssignedOnly) =>
                DataIds(response') \subseteq AssignedIngredients(u)
      ]_vars

\* C4: with assigned_only=1 each assigned tag (ingredient) comes exactly once: when
\* a user has one tag linked to two recipes and a second tag linked to none, the list
\* has exactly one item
C4_AssignedUnique ==
    [][\A u \in Emails :
          (/\ TagList(u, AssignedOnly)
           /\ Cardinality(OwnIds(tags, u)) = 2
           /\ \E t \in OwnIds(tags, u) :
                 /\ Cardinality({r \in recipes : t \in r.tags}) = 2
                 /\ \A o \in OwnIds(tags, u) \ {t} : \A r \in recipes : o \notin r.tags)
          => /\ Len(response'.data) = 1
             /\ DataIds(response') = AssignedTags(u)
      ]_vars

\* the ids a query string of the list of recipes stands for
C5_Ids(qs) ==
    CASE qs = <<"1">> -> {1}
      [] qs = <<"1", ",", " ", "2">> -> {1, 2}
      [] OTHER -> {}

C5_Given(params, key) == Has(params, key) /\ params[key] # <<>>

\* the query parameters that are lists of ids
C5_Params ==
    {params \in RecipeListParams :
        \A key \in DOMAIN params :
            params[key] \in {<<>>, <<"1">>, <<"1", ",", " ", "2">>}}

C5_Expected(u, params) ==
    {r.id : r \in
        {x \in OwnRecipes(u) :
            /\ C5_Given(params, "tags") => x.tags \cap C5_Ids(params.tags) # {}
            /\ C5_Given(params, "ingredients") =>
                  x.ingredients \cap C5_Ids(params.ingredients) # {}}}

\* C5: a list of recipes with a tags and/or an ingredients parameter holds exactly the
\* recipes of the user that have a tag of the tags set (when given) and an ingredient
\* of the ingredients set (when given); with neither, all recipes of the user
C5_FilterRecipes ==
    [][\A u \in Emails, params \in C5_Params :
          RecipeList(u, params) =>
              /\ response'.status = HTTP_200_OK
              /\ DataIds(response') = C5_Expected(u, params)
      ]_vars

\* C5 witness: of two recipes of u1, the list filtered by a tag holds the one that
\* has the tag and not the other
C5_Witness ==
    /\ Len(tags) = 2 /\ tags[1].user = "u1" /\ tags[2].user = "u1"
    /\ \E r1, r2 \in recipes :
          /\ r1.id = 1 /\ r1.user = "u1" /\ r1.tags = {2} /\ r1.ingredients = {}
          /\ r2.id = 2 /\ r2.user = "u1" /\ r2.tags = {} /\ r2.ingredients = {}
          /\ response = Res(HTTP_200_OK, <<RecipeSerializer_data(r1)>>)

\* C6: a successful create of a tag or of an ingredient by user u appends one row
\* with the name of the payload and owner u, whatever user the payload names, and
\* changes nothing else; a payload with a name succeeds
C6_CreateAttr ==
    [][\A u \in Emails, data \in AttrPayloads :
          /\ TagCreate(u, data) /\ (response'.status = HTTP_201_CREATED \/ data.name # "")
             => /\ response' = Res(HTTP_201_CREATED,
                                   <<[id |-> Len(tags) + 1, name |-> data.name]>>)
                /\ tags' = Append(tags, [name |-> data.name, user |-> u])
                /\ UNCHANGED <<users, ingredients, recipes, nextRecipeId>>
          /\ IngredientCreate(u, data)
                /\ (response'.status = HTTP_201_CREATED \/ data.name # "")
             => /\ response' = Res(HTTP_201_CREATED,
                                   <<[id |-> Len(ingredients) + 1, name |-> data.name]>>)
                /\ ingredients' = Append(ingredients, [name |-> data.name, user |-> u])
                /\ UNCHANGED <<users, tags, recipes, nextRecipeId>>
      ]_vars

\* C6 witness: the second tag has been created, by u1, after a tag of u2
C6_Witness ==
    /\ Len(tags) = 2 /\ tags[1].user = "u2" /\ tags[2] = [name |-> "a", user |-> "u1"]
    /\ response = Res(HTTP_201_CREATED, <<[id |-> 2, name |-> "a"]>>)

NoBlankName ==
    /\ \A i \in Ids(tags) : tags[i].name # ""
    /\ \A i \in Ids(ingredients) : ingredients[i].name # ""

\* C7: a create of a tag or of an ingredient with an empty name is answered 400 and
\* stores nothing, so that no stored tag or ingredient has an empty name
C7_BlankNameRejected ==
    /\ []NoBlankName
    /\ [][\A u \in Emails :
             TagCreate(u, [name |-> ""]) \/ IngredientCreate(u, [name |-> ""])
             => /\ response'.status = HTTP_400_BAD_REQUEST
                /\ tags' = tags /\ ingredients' = ingredients
          ]_vars

\* C7 witness: a create with a blank name has been refused while a tag is stored
C7_Witness ==
    /\ response = Res(HTTP_400_BAD_REQUEST, <<[name |-> "blank"]>>)
    /\ Len(tags) = 1

LinksOf(data, key) == IF Has(data, key) THEN data[key] ELSE {}

\* C9: a successful create of a recipe by user u answers 201 and stores one new
\* recipe of u with the title, time_minutes and price of the payload and with
\* exactly the tags and ingredients the payload lists, none when it lists none
C9_CreateRecipe ==
    [][\A u \in Emails, data \in RecipePayloads :
          response'.status = HTTP_201_CREATED /\ RecipeCreate(u, data)
          => \E new \in recipes' :
                /\ \A r \in recipes : r.id # new.id
                /\ recipes' = recipes \cup {new}
                /\ new.user = u
                /\ new.title = data.title
                /\ new.time_minutes = data.time_minutes
                /\ new.price = data.price
                /\ new.tags = LinksOf(data, "tags")
                /\ new.ingredients = LinksOf(data, "ingredients")
                /\ Len(response'.data) = 1 /\ response'.data[1].id = new.id
                /\ UNCHANGED <<users, tags, ingredients>>
      ]_vars

\* C9 witness: u1 has created recipe 2 with two tags, after a recipe of u2
C9_Witness ==
    \E r1, r2 \in recipes :
        /\ r1.id = 1 /\ r1.user = "u2"
        /\ r2.id = 2 /\ r2.user = "u1" /\ r2.tags = {1, 2} /\ r2.title = "t2"
        /\ response = Res(HTTP_201_CREATED, <<RecipeSerializer_data(r2)>>)

PatchFields == {"title", "time_minutes", "price", "tags", "ingredients"}

\* C10: a PATCH of a recipe by its owner replaces the fields the payload holds, the
\* whole set of tags by the given one, and leaves every other field, the owner and
\* every other row as they were
C10_PartialUpdate ==
    [][\A u \in Emails, pk \in Pks, data \in RecipePatchPayloads :
          response'.status = HTTP_200_OK /\ RecipePartialUpdate(u, pk, Empty, data)
          => \E old \in recipes, new \in recipes' :
                /\ old.id = pk /\ old.user = u
                /\ recipes' = (recipes \ {old}) \cup {new}
                /\ \A f \in PatchFields :
                      new[f] = IF Has(data, f) THEN data[f] ELSE old[f]
                /\ new.id = old.id /\ new.user = old.user /\ new.image = old.image
                /\ UNCHANGED <<users, tags, ingredients, nextRecipeId>>
      ]_vars

\* C10 witness: a recipe created with title t2, time 20 and price 6 now has title t1
\* and the one tag 2: the PATCH of title and tags has been applied to it
C10_Witness ==
    /\ Len(tags) = 2
    /\ \E r \in recipes :
          /\ r.title = "t1" /\ r.time_minutes = 20 /\ r.price = 6 /\ r.tags = {2}
          /\ r.ingredients = {1}
          /\ response = Res(HTTP_200_OK, <<RecipeSerializer_data(r)>>)

PutFields == {"title", "time_minutes", "price"}

\* C11: a PUT of a recipe by its owner that carries title, time_minutes and price
\* succeeds; a PUT that succeeds replaces these three fields by the payload's values
\* and the set of tags by the tags of the payload, the empty set when the payload
\* has none, whatever tags the recipe had; the id, the owner and every other row
\* are as they were
C11_FullUpdate ==
    [][\A u \in Emails, pk \in Pks, data \in RecipePutPayloads :
          (/\ \/ response'.status = HTTP_200_OK
              \/ /\ PutFields \subseteq DOMAIN data
                 /\ ~Has(data, "tags")
                 /\ \E old \in recipes : old.id = pk /\ old.user = u
           /\ RecipeUpdate(u, pk, Empty, data))
          => /\ response'.status = HTTP_200_OK
             /\ \E old \in recipes, new \in recipes' :
                   /\ old.id = pk /\ old.user = u
                   /\ recipes' = (recipes \ {old}) \cup {new}
                   /\ \A f \in PutFields : Has(data, f) /\ new[f] = data[f]
                   /\ new.tags = LinksOf(data, "tags")
                   /\ new.id = old.id /\ new.user = old.user
                   /\ UNCHANGED <<users, tags, ingredients, nextRecipeId>>
      ]_vars

\* C11 witness: the only recipe, created when a tag was stored, has title t2, time
\* 20 and price 6 and no tags, and the answer is 200 with this recipe
C11_Witness ==
    /\ Len(tags) = 1 /\ nextRecipeId = 2
    /\ \E r \in recipes :
          /\ r.title = "t2" /\ r.time_minutes = 20 /\ r.price = 6
          /\ r.tags = {} /\ r.ingredients = {}
          /\ response = Res(HTTP_200_OK, <<RecipeSerializer_data(r)>>)

\* the payload of an upload that holds an image file
ValidImage(data) == Has(data, "image") /\ data.image = "img"

\* C12: an upload of an image by the owner of the recipe answers 200 with an image
\* field and stores the image in the recipe when the payload holds an image file,
\* and answers 400 and leaves the recipe as it was otherwise; the other recipes and
\* the other tables are as they were in both cases
C12_UploadImage ==
    [][\A u \in Emails, pk \in Pks, data \in ImagePayloads :
          (/\ \E old \in recipes : old.id = pk /\ old.user = u
           /\ RecipeViewSet_upload_image(u, pk, Empty, data))
          => LET old == RecipeById(pk)
             IN /\ IF ValidImage(data)
                   THEN /\ response'.status = HTTP_200_OK
                        /\ Len(response'.data) = 1
                        /\ Has(response'.data[1], "image")
                        /\ response'.data[1].image = data.image
                        /\ recipes' =
                              (recipes \ {old}) \cup {[old EXCEPT !.image = data.image]}
                   ELSE /\ response'.status = HTTP_400_BAD_REQUEST
                        /\ recipes' = recipes
                /\ \A r \in recipes : r.id # pk => r \in recipes'
                /\ UNCHANGED <<users, tags, ingredients, nextRecipeId>>
      ]_vars

\* C12 witness: of two recipes of u1 one has the uploaded image and the other has
\* none, and an upload without an image file has just been refused
C12_Witness ==
    /\ \E r1, r2 \in recipes :
          /\ r1.id = 1 /\ r1.user = "u1" /\ r1.image = "img"
          /\ r2.id = 2 /\ r2.user = "u1" /\ r2.image = NoImage
    /\ response = Res(HTTP_400_BAD_REQUEST, <<[image |-> "invalid_image"]>>)

\* C17: a retrieve, update, partial update, delete or image upload by user a on the
\* id of a recipe of another user b is answered 404 without data, and leaves every
\* table, the recipe of b with it, as it was
C17_NoCrossUserAccess ==
    [][\A a \in Emails, b \in Emails, pk \in Pks :
          (/\ a # b
           /\ \E r \in recipes : r.id = pk /\ r.user = b
           /\ \/ RecipeRetrieve(a, pk, Empty)
              \/ \E data \in DetailPutPayloads : RecipeUpdate(a, pk, Empty, data)
              \/ \E data \in DetailPatchPayloads : RecipePartialUpdate(a, pk, Empty, data)
              \/ RecipeDestroy(a, pk, Empty)
              \/ \E data \in ImagePayloads : RecipeViewSet_upload_image(a, pk, Empty, data))
          => /\ response' = Res(HTTP_404_NOT_FOUND, Empty)
             /\ UNCHANGED db
      ]_vars

\* C17 witness: both ids are recipes, one of u1 and one of u2 with a tag and an
\* image, and the last request found nothing: it named the recipe of the other user
C17_Witness ==
    /\ \E r1, r2 \in recipes :
          /\ r1.id = 1 /\ r1.user = "u1"
          /\ r2.id = 2 /\ r2.user = "u2" /\ r2.tags = {1} /\ r2.image = "img"
    /\ response = Res(HTTP_404_NOT_FOUND, Empty)

AtMostOneUserPerEmail == \A u, v \in users : u.email = v.email => u = v

\* C13: a creation of a user with the email of a stored user, or with a password of
\* fewer than 5 characters, is answered 400 and leaves the users as they were; and
\* no two stored users have the same email
C13_UserCreateRejected ==
    /\ []AtMostOneUserPerEmail
    /\ [][\A data \in UserPayloads :
             (/\ \/ \E u \in users : u.email = data.email
                 \/ Len(data.password) < 5
              /\ UserCreate(data))
             => /\ response'.status = HTTP_400_BAD_REQUEST
                /\ users' = users
          ]_vars

\* C13 witness: u3 has been created, and a second creation with its email and a
\* password that is long enough has been refused
C13_Witness ==
    /\ \E u \in users : u.email = "u3"
    /\ response = Res(HTTP_400_BAD_REQUEST, <<[email |-> "unique"]>>)

HasToken(res) == \E k \in DOMAIN res.data : Has(res.data[k], "token")

\* C14: a token request is answered with a token exactly when a stored user has
\* its email and its password; otherwise (wrong password, unknown email, empty
\* password) the answer is 400
C14_TokenIffCredentials ==
    [][\A data \in TokenPayloads :
          TokenCreate(data)
          => LET match == \E u \in users :
                             u.email = data.email /\ check_password(u, data.password)
             IN /\ HasToken(response') <=> match
                /\ match => response'.status = HTTP_200_OK
                /\ ~match => response'.status = HTTP_400_BAD_REQUEST
                /\ users' = users
      ]_vars

\* C14 witness: u3 and u4 are stored with different passwords, and the request for
\* a token of u3 with the password of u4 has been refused
C14_Witness ==
    /\ \E u, v \in users :
          /\ u.email = "u3" /\ check_password(u, <<"w", "r", "o", "n", "g">>)
          /\ v.email = "u4" /\ check_password(v, <<"p", "a", "s", "s", "1">>)
    /\ response = Res(HTTP_400_BAD_REQUEST, <<[non_field_errors |-> "authentication"]>>)

\* C15: a list of recipes without filter parameters comes in descending order of id
C15_RecipesNewestFirst ==
    [][\A u \in Emails :
          RecipeList(u, Empty)
          => \A i, j \in DOMAIN response'.data :
                i < j => response'.data[i].id > response'.data[j].id
      ]_vars

\* the names of a list response come in descending order
NamesDescending(res) ==
    \A i, j \in DOMAIN res.data :
        i < j => NameRank(res.data[i].name) >= NameRank(res.data[j].name)

\* C16: a list of tags or of ingredients holds rows of the user only, in descending
\* order of name, whatever the order of their creation
C16_AttrsByNameDescending ==
    [][\A u \in Emails, params \in AttrListParams :
          /\ TagList(u, params)
             => /\ response'.status = HTTP_200_OK
                /\ DataIds(response') \subseteq OwnIds(tags, u)
                /\ NamesDescending(response')
          /\ IngredientList(u, params)
             => /\ response'.status = HTTP_200_OK
                /\ DataIds(response') \subseteq OwnIds(ingredients, u)
                /\ NamesDescending(response')
      ]_vars

\* C16 witness: u1 has created tag a and then tag b, and the list holds b before a
C16_Witness ==
    /\ tags = <<[name |-> "a", user |-> "u1"], [name |-> "b", user |-> "u1"]>>
    /\ response = Res(HTTP_200_OK, <<[id |-> 2, name |-> "b"], [id |-> 1, name |-> "a"]>>)

\* the parameters of C5 that hold a filter
C18_Params == {params \in C5_Params : \E key \in DOMAIN params : params[key] # <<>>}

\* C18: a list of recipes filtered by tags and/or ingredients holds each recipe at
\* most once, also when two tags of the recipe are in the set of the request
C18_FilteredOnce ==
    [][\A u \in Emails, params \in C18_Params :
          RecipeList(u, params)
          => \A i, j \in DOMAIN response'.data :
                i # j => response'.data[i].id # response'.data[j].id
      ]_vars

====
